---- MODULE Spec2Model ----
(***************************************************************************)
(* A model of fastapi_config: Field descriptors, the ConfigMeta metaclass  *)
(* that merges Field declarations along the class hierarchy, and Config    *)
(* instances that resolve each field from os.environ at access time.       *)
(*                                                                         *)
(* Python strings are sequences of one-character strings, so that          *)
(* str.upper and str.lower are computed.  Python objects are records       *)
(* [t |-> type name, v |-> payload].  Python dicts are sequences of        *)
(* <<key, value>> pairs in insertion order.  Field objects live on a heap  *)
(* (fields) and are referred to by their index, their identity.            *)
(***************************************************************************)
EXTENDS Integers, Sequences, FiniteSets, TLC

VARIABLES
    fields,     \* heap of Field objects: Seq([default, type, _env_var])
    classes,    \* classes built by ConfigMeta: Seq([base, attrs, _vars]); classes[1] is Config
    config,     \* the Config instance the program holds: [cls, dict]; dict is its __dict__
    environ,    \* os.environ: a function from the names that are set to their raw strings
    ret         \* what the last operation returned or raised

vars == <<fields, classes, config, environ, ret>>

-----------------------------------------------------------------------------
(* Bounds of the model *)

MaxFields == 2
MaxClasses == 2

-----------------------------------------------------------------------------
(* Python strings *)

Lowercase == <<"a","b","c","d","e","f","g","h","i","j","k","l","m",
               "n","o","p","q","r","s","t","u","v","w","x","y","z">>
Uppercase == <<"A","B","C","D","E","F","G","H","I","J","K","L","M",
               "N","O","P","Q","R","S","T","U","V","W","X","Y","Z">>

IsLower(c) == \E k \in DOMAIN Lowercase : Lowercase[k] = c
IsUpper(c) == \E k \in DOMAIN Uppercase : Uppercase[k] = c

\* str.upper()
upper(s) == [i \in 1..Len(s) |->
               IF IsLower(s[i])
               THEN Uppercase[CHOOSE k \in DOMAIN Lowercase : Lowercase[k] = s[i]]
               ELSE s[i]]

\* str.lower()
lower(s) == [i \in 1..Len(s) |->
               IF IsUpper(s[i])
               THEN Lowercase[CHOOSE k \in DOMAIN Uppercase : Uppercase[k] = s[i]]
               ELSE s[i]]

Digits == <<"0","1","2","3","4","5","6","7","8","9">>
IsDigit(c) == \E k \in DOMAIN Digits : Digits[k] = c
DigitVal(c) == (CHOOSE k \in DOMAIN Digits : Digits[k] = c) - 1

-----------------------------------------------------------------------------
(* Python objects *)

PyNone == [t |-> "NoneType", v |-> 0]
PyBool(b) == [t |-> "bool", v |-> b]
PyStr(s) == [t |-> "str", v |-> s]
PyInt(n) == [t |-> "int", v |-> n]
PyDict(d) == [t |-> "dict", v |-> d]
PyField(f) == [t |-> "Field", v |-> f]
Raise(exc) == [t |-> "raise", v |-> exc]

IsRaise(x) == x.t = "raise"

\* The field types: bool, str, int and the module constant JSON = "JSON"
JSON == "JSON"

-----------------------------------------------------------------------------
(* Python dicts, in insertion order *)

Keys(d) == {d[i][1] : i \in DOMAIN d}
Has(d, k) == k \in Keys(d)
Lookup(d, k) == d[CHOOSE i \in DOMAIN d : d[i][1] = k][2]

\* A d[k] = v that keeps the value of an existing key, as d.setdefault(k, v) does
DictSetDefault(d, k, v) ==
    IF Has(d, k) THEN d ELSE Append(d, <<k, v>>)

\* d[k] = v: an existing key keeps its place, a new key goes last
DictSet(d, k, v) ==
    IF Has(d, k)
    THEN [i \in DOMAIN d |-> IF d[i][1] = k THEN <<k, v>> ELSE d[i]]
    ELSE Append(d, <<k, v>>)

\* d.update(other)
RECURSIVE update(_, _)
update(d, other) ==
    IF other = <<>> THEN d
    ELSE update(DictSet(d, Head(other)[1], Head(other)[2]), Tail(other))

-----------------------------------------------------------------------------
(* Field *)

\* Field.__init__(default, field_type=str, env_var=None)
Field(default, field_type, env_var) ==
    [default |-> default, type |-> field_type, _env_var |-> env_var]

\* Python truthiness of an env_var value (None or a str): `not self._env_var`
Falsy(x) == x = PyNone \/ x = PyStr(<<>>)

\* An env_var setter without the guard
env_var_setter_unguarded(f, value) ==
    [f EXCEPT !._env_var = PyStr(upper(value))]

\* The env_var setter: assigns value.upper() only while _env_var is unset or empty
env_var_setter(f, value) ==
    IF Falsy(f._env_var)
    THEN [f EXCEPT !._env_var = PyStr(upper(value))]
    ELSE f

AllDigits(s) == \A i \in DOMAIN s : IsDigit(s[i])

RECURSIVE ParseNat(_)
ParseNat(s) ==
    IF s = <<>> THEN 0
    ELSE 10 * ParseNat(SubSeq(s, 1, Len(s) - 1)) + DigitVal(s[Len(s)])

\* int(raw_val), for raw strings of letters, digits and signs
int(s) ==
    LET signed == s # <<>> /\ s[1] \in {"-", "+"}
        body == IF signed THEN Tail(s) ELSE s
    IN  IF body # <<>> /\ AllDigits(body)
        THEN PyInt(IF signed /\ s[1] = "-" THEN 0 - ParseNat(body) ELSE ParseNat(body))
        ELSE Raise("ValueError")

\* json.loads(raw_val), for the JSON literals, integers and the empty object
json_loads(s) ==
    LET neg == s # <<>> /\ s[1] = "-"
        body == IF neg THEN Tail(s) ELSE s
    IN  IF s = <<"t","r","u","e">> THEN PyBool(TRUE)
        ELSE IF s = <<"f","a","l","s","e">> THEN PyBool(FALSE)
        ELSE IF s = <<"n","u","l","l">> THEN PyNone
        ELSE IF s = <<"{","}">> THEN PyDict(<<>>)
        ELSE IF body # <<>> /\ AllDigits(body) /\ (Len(body) = 1 \/ body[1] # "0")
        THEN PyInt(IF neg THEN 0 - ParseNat(body) ELSE ParseNat(body))
        ELSE Raise("JSONDecodeError")

\* A decoding that takes every string other than "true" for False
decode_lenient(field_type, raw_val) ==
    IF field_type = "bool" THEN PyBool(lower(raw_val) = <<"t","r","u","e">>)
    ELSE IF field_type = JSON THEN json_loads(raw_val)
    ELSE IF field_type = "int" THEN int(raw_val)
    ELSE PyStr(raw_val)

\* The body of Field.value once raw_val is known to be a string
decode(field_type, raw_val) ==
    IF field_type = "bool"
    THEN IF lower(raw_val) = <<"t","r","u","e">> THEN PyBool(TRUE)
         ELSE IF lower(raw_val) = <<"f","a","l","s","e">> THEN PyBool(FALSE)
         ELSE Raise("ValueError")
    ELSE IF field_type = JSON THEN json_loads(raw_val)
    ELSE IF field_type = "int" THEN int(raw_val)
    ELSE PyStr(raw_val)

\* A Field.value that takes the default for raw_val (os.environ.get(name, default)) and
\* decodes it: only a str passes through str(), bool and JSON code fail on a non-string
value_decoding_default(f, env) ==
    IF f._env_var = PyNone THEN Raise("TypeError")
    ELSE IF f._env_var.v \notin DOMAIN env
         THEN IF f.type \in {"str", "int"} THEN f.default
              ELSE IF f.type = "bool" THEN Raise("AttributeError") ELSE Raise("TypeError")
    ELSE decode(f.type, env[f._env_var.v])

\* A Field.value that keeps the first value it resolved: the one of the environment
\* the module was imported in, where no variable is set
value_cached(f, env) ==
    IF f._env_var = PyNone THEN Raise("TypeError") ELSE f.default

\* Field.value read against the environment env; os.environ.get(None) raises
value(f, env) ==
    IF f._env_var = PyNone THEN Raise("TypeError")
    ELSE IF f._env_var.v \notin DOMAIN env THEN f.default
    ELSE decode(f.type, env[f._env_var.v])

-----------------------------------------------------------------------------
(* ConfigMeta *)

\* cls.__mro__ reversed, for a class whose base is b: object (0), Config (1), ..., b.
\* The class being created comes last, with the empty _vars it was just given.
RECURSIVE reversed_mro(_, _)
reversed_mro(cs, b) ==
    IF b = 0 THEN <<0>> ELSE Append(reversed_mro(cs, cs[b].base), b)

\* The loop over reversed_mro: object has no _vars, the exception is swallowed
RECURSIVE merge_mro(_, _, _)
merge_mro(cs, acc, mro) ==
    IF mro = <<>> THEN acc
    ELSE merge_mro(cs, IF Head(mro) = 0 THEN acc
                       ELSE update(acc, cs[Head(mro)]._vars), Tail(mro))

\* The loop over attrs: binds each Field under its name and names its variable.
\* st = [_vars, heap]; attrs maps names to Field identities, in class-body order.
RECURSIVE bind_attrs(_, _)
bind_attrs(st, attrs) ==
    IF attrs = <<>> THEN st
    ELSE LET name == Head(attrs)[1]
             fid == Head(attrs)[2]
         IN  bind_attrs([_vars |-> DictSet(st._vars, name, fid),
                         heap |-> [st.heap EXCEPT ![fid] = env_var_setter(@, name)]],
                        Tail(attrs))

\* A ConfigMeta.__new__ that starts from the base class's own _vars dict instead of a
\* new one (cls._vars = base._vars), so that the base sees the derived class's names
ConfigMeta_new_shared(cs, heap, b, attrs) ==
    LET st == bind_attrs([_vars |-> update(merge_mro(cs, <<>>, reversed_mro(cs, b)), <<>>),
                          heap |-> heap], attrs)
    IN  [classes |-> Append([cs EXCEPT ![b]._vars = st._vars],
                            [base |-> b, attrs |-> attrs, _vars |-> st._vars]),
         heap |-> st.heap]

\* ConfigMeta.__new__ for `class X(cs[b]): <attrs>` over the class table cs and the
\* heap: the class table with the new class appended, and the heap
ConfigMeta_new(cs, heap, b, attrs) ==
    LET st == bind_attrs([_vars |-> update(merge_mro(cs, <<>>, reversed_mro(cs, b)), <<>>),
                          heap |-> heap], attrs)
    IN  [classes |-> Append(cs, [base |-> b, attrs |-> attrs, _vars |-> st._vars]),
         heap |-> st.heap]

-----------------------------------------------------------------------------
(* Config *)

\* load_dotenv(dotenv_path=env_path): sets the variables of the .env file that
\* os.environ does not hold yet
load_dotenv(dotenv, env) ==
    [k \in DOMAIN env \cup DOMAIN dotenv |-> IF k \in DOMAIN env THEN env[k] ELSE dotenv[k]]

\* The loop of Config.__init__: self.__dict__[key] = Field(value)
RECURSIVE init_dict(_, _)
init_dict(d, cfg) ==
    IF cfg = <<>> THEN d
    ELSE init_dict(DictSet(d, Head(cfg)[1], Field(Head(cfg)[2], "str", PyNone)), Tail(cfg))

\* Config.__getattr__(self, name)
getattr_hook(self, name) ==
    IF Has(classes[self.cls]._vars, name)
    THEN value(fields[Lookup(classes[self.cls]._vars, name)], environ)
    ELSE Raise("AttributeError")

\* The expression `self.name`: the instance __dict__ is looked up first (the Field
\* attributes were deleted from the classes), __getattr__ is the fallback
getattribute(self, name) ==
    IF Has(self.dict, name) THEN PyField(Lookup(self.dict, name))
    ELSE getattr_hook(self, name)

\* The dict comprehension of as_dict: the first failing field's exception propagates
RECURSIVE as_dict_loop(_, _)
as_dict_loop(acc, items) ==
    IF items = <<>> THEN PyDict(acc)
    ELSE LET v == value(fields[Head(items)[2]], environ)
         IN  IF IsRaise(v) THEN v
             ELSE as_dict_loop(Append(acc, <<Head(items)[1], v>>), Tail(items))

\* Config.as_dict(self)
as_dict(self) == as_dict_loop(<<>>, classes[self.cls]._vars)

\* Config.get(self, name, default): _d.get(name, None)
get(self, name, default) ==
    LET _d == as_dict(self)
    IN  IF IsRaise(_d) THEN _d
        ELSE IF Has(_d.v, name) THEN Lookup(_d.v, name)
        ELSE PyNone

\* Config.has_key(self, name)
has_key(self, name) ==
    LET _d == as_dict(self)
    IN  IF IsRaise(_d) THEN _d ELSE PyBool(Has(_d.v, name))

-----------------------------------------------------------------------------
(* The operations of a program that uses the library *)

NoInstance == [cls |-> 0, dict |-> <<>>]
Returned(op, name, default, val) == [op |-> op, name |-> name, default |-> default, val |-> val]
NoReturn == Returned("none", <<>>, PyNone, PyNone)

\* Field(default, field_type, env_var): a new Field object
NewField(default, field_type, env_var) ==
    /\ Len(fields) < MaxFields
    /\ fields' = Append(fields, Field(default, field_type, env_var))
    /\ ret' = NoReturn
    /\ UNCHANGED <<classes, config, environ>>

\* class X(classes[b]): the body binds the names of attrs to existing Field objects
DeclareClass(b, attrs) ==
    /\ Len(classes) < 1 + MaxClasses
    /\ LET new == ConfigMeta_new(classes, fields, b, attrs)
       IN  /\ classes' = new.classes
           /\ fields' = new.heap
    /\ ret' = NoReturn
    /\ UNCHANGED <<config, environ>>

\* config = classes[c](config=cfg, env_path=<a file holding dotenv>)
Construct(c, cfg, dotenv) ==
    /\ config' = [cls |-> c, dict |-> IF cfg # <<>> THEN init_dict(<<>>, cfg) ELSE <<>>]
    /\ environ' = load_dotenv(dotenv, environ)
    /\ ret' = NoReturn
    /\ UNCHANGED <<fields, classes>>

\* monkeypatch.setenv(key, raw) / os.environ[key] = raw
setenv(key, raw) ==
    /\ environ' = [k \in DOMAIN environ \cup {key} |-> IF k = key THEN raw ELSE environ[k]]
    /\ ret' = NoReturn
    /\ UNCHANGED <<fields, classes, config>>

\* del os.environ[key]
delenv(key) ==
    /\ key \in DOMAIN environ
    /\ environ' = [k \in DOMAIN environ \ {key} |-> environ[k]]
    /\ ret' = NoReturn
    /\ UNCHANGED <<fields, classes, config>>

\* config.<name>
GetAttr(name) ==
    /\ config # NoInstance
    /\ ret' = Returned("getattr", name, PyNone, getattribute(config, name))
    /\ UNCHANGED <<fields, classes, config, environ>>

\* config.as_dict()
AsDict ==
    /\ config # NoInstance
    /\ ret' = Returned("as_dict", <<>>, PyNone, as_dict(config))
    /\ UNCHANGED <<fields, classes, config, environ>>

\* config.get(name, default)
Get(name, default) ==
    /\ config # NoInstance
    /\ ret' = Returned("get", name, default, get(config, name, default))
    /\ UNCHANGED <<fields, classes, config, environ>>

\* config.has_key(name)
HasKey(name) ==
    /\ config # NoInstance
    /\ ret' = Returned("has_key", name, PyNone, has_key(config, name))
    /\ UNCHANGED <<fields, classes, config, environ>>

-----------------------------------------------------------------------------
(* Inputs *)

foo == <<"f","o","o">>
bar == <<"b","a","r">>
baz == <<"b","a","z">>
puyo == <<"p","u","y","o">>
qux == <<"q","u","x">>
zap == <<"z","a","p">>
FOO == <<"F","O","O">>
BAR == <<"B","A","R">>
poyo == <<"p","o","y","o">>
pica == <<"p","i","c","a">>
some_obj == <<"s","o","m","e","_","o","b","j">>
SOME_OBJ == <<"S","O","M","E","_","O","B","J">>
QUUX == <<"Q","U","U","X">>
some_int == <<"s","o","m","e","_","i","n","t">>
some_bool == <<"s","o","m","e","_","b","o","o","l">>

\* Field names a class body declares, in the order the body lists them
Names == <<foo, bar>>

\* Arguments of Field(...): no env_var, an explicit env_var, an empty env_var
FieldArgs ==
    { <<PyStr(bar), "str", PyNone>>,
      <<PyInt(25), "int", PyStr(QUUX)>>,
      <<PyBool(TRUE), "bool", PyStr(<<>>)>> }

\* Class bodies: each name of ns, in order, left out or bound to one of the Field objects
RECURSIVE Bodies(_, _)
Bodies(ns, fids) ==
    IF ns = <<>> THEN {<<>>}
    ELSE LET rest == Bodies(Tail(ns), fids)
         IN  rest \cup {<< <<Head(ns), f>> >> \o r : f \in fids, r \in rest}

\* Raw strings an environment variable is set to
RawVals == { <<"T","r","u","e">>, <<"F","A","L","S","E">>, <<"y","e","s">>, <<>>, <<"3","0">> }

\* The settings of the environment a run makes: <<variable, raw string>>
EnvSettings ==
    {<<FOO, raw>> : raw \in RawVals}
      \cup {<<QUUX, raw>> : raw \in {<<"3","0">>, <<"y","e","s">>, <<>>}}
      \cup {<<BAR, raw>> : raw \in {<<"y","e","s">>, <<>>}}
      \cup {<<SOME_OBJ, raw>> : raw \in {<<"3","0">>, <<"T","r","u","e">>}}

\* The config argument of Config(...): None or a dict of direct values
Configs == { <<>>, << <<bar, PyStr(zap)>> >> }

\* Arguments of config.get(name, default)
Defaults == { PyNone, PyInt(7) }

-----------------------------------------------------------------------------
(* The module as imported: Config is the only class, no Field exists *)

Config == [base |-> 0, attrs |-> <<>>, _vars |-> <<>>]

Init ==
    /\ fields = <<>>
    /\ classes = <<Config>>
    /\ config = NoInstance
    /\ environ = <<>>
    /\ ret = NoReturn

(* A program that creates Field objects and declares configuration classes *)

Next ==
    \/ \E a \in FieldArgs : NewField(a[1], a[2], a[3])
    \/ /\ Len(classes) < 1 + MaxClasses
       /\ \E b \in DOMAIN classes, attrs \in Bodies(Names, DOMAIN fields) : DeclareClass(b, attrs)

Spec == Init /\ [][Next]_vars

-----------------------------------------------------------------------------
(* A program that, with two Field objects at hand, declares classes, builds  *)
(* instances, changes the environment and reads the configuration            *)

InitProgram ==
    /\ fields = << Field(PyStr(bar), "str", PyNone), Field(PyInt(25), "int", PyStr(QUUX)) >>
    /\ classes = <<Config>>
    /\ config = NoInstance
    /\ environ = <<>>
    /\ ret = NoReturn

\* Class bodies over the two Field objects: empty, one name, two names, a name bound
\* to the other object (an override), an object bound again under another name
ProgramBodies ==
    { <<>>,
      << <<foo, 1>> >>,
      << <<foo, 1>>, <<bar, 2>> >>,
      << <<foo, 2>> >>,
      << <<bar, 1>> >>,
      << <<bar, 2>> >> }

NextProgram ==
    \/ \E b \in DOMAIN classes, attrs \in ProgramBodies : DeclareClass(b, attrs)
    \/ \E c \in DOMAIN classes, cfg \in Configs : Construct(c, cfg, <<>>)
    \/ setenv(QUUX, <<"3","0">>)
    \/ delenv(QUUX)
    \/ GetAttr(bar)
    \/ AsDict
    \/ Get(foo, PyNone)
    \/ HasKey(foo)

SpecProgram == InitProgram /\ [][NextProgram]_vars

-----------------------------------------------------------------------------
(* A program that has declared the classes of test_inherited_config.py and   *)
(* reads instances of them while the environment changes                     *)

\* The default of some_obj, shortened to two of its four entries
some_obj_default == PyDict(<< <<some_int, PyInt(5)>>, <<some_bool, PyBool(TRUE)>> >>)

TestFields ==
    << Field(PyBool(TRUE), "bool", PyNone),      \* ParentConfig.foo
       Field(PyStr(bar), "str", PyNone),         \* ParentConfig.bar
       Field(PyInt(25), "int", PyStr(QUUX)),     \* ParentConfig.baz
       Field(some_obj_default, JSON, PyNone),    \* ParentConfig.some_obj
       Field(PyStr(pica), "str", PyNone),        \* SampleConfig.bar
       Field(PyStr(poyo), "str", PyNone) >>      \* SampleConfig.puyo

ParentConfig ==
    ConfigMeta_new(<<Config>>, TestFields, 1,
                   << <<foo, 1>>, <<bar, 2>>, <<baz, 3>>, <<some_obj, 4>> >>)
SampleConfig ==
    ConfigMeta_new(ParentConfig.classes, ParentConfig.heap, 2, << <<bar, 5>>, <<puyo, 6>> >>)

DotenvFiles == { <<>>, [k \in {FOO} |-> <<"F","A","L","S","E">>] }
ReadNames == {foo, bar, baz, some_obj, puyo, qux}

InitEnv ==
    /\ fields = SampleConfig.heap
    /\ classes = SampleConfig.classes
    /\ config = NoInstance
    /\ environ = <<>>
    /\ ret = NoReturn

NextEnv ==
    \/ \E c \in DOMAIN classes, cfg \in Configs, dotenv \in DotenvFiles : Construct(c, cfg, dotenv)
    \/ \E kv \in EnvSettings : setenv(kv[1], kv[2])
    \/ \E kv \in EnvSettings : delenv(kv[1])
    \/ \E n \in ReadNames : GetAttr(n)
    \/ AsDict
    \/ \E n \in ReadNames, d \in Defaults : Get(n, d)
    \/ \E n \in ReadNames : HasKey(n)

SpecEnv == InitEnv /\ [][NextEnv]_vars

-----------------------------------------------------------------------------
(* Properties *)

\* The classes of the chain from Config down to c
RECURSIVE Chain(_)
Chain(c) == IF c = 0 THEN {} ELSE {c} \cup Chain(classes[c].base)

\* The most-derived class of c's chain whose body declares n (0 when none does)
RECURSIVE Declarer(_, _)
Declarer(c, n) ==
    IF c = 0 THEN 0
    ELSE IF Has(classes[c].attrs, n) THEN c
    ELSE Declarer(classes[c].base, n)

DeclaredNames(c) == UNION {Keys(classes[a].attrs) : a \in Chain(c)}

\* C1: in every class, _vars binds each name declared along the chain to the Field
\* the most-derived declaring class bound it to; a name the class does not declare
\* is bound to the very Field the base class's _vars holds; _vars and as_dict() have
\* exactly the names declared along the chain, each once.
C1_MostDerivedWins ==
    \A c \in DOMAIN classes :
        LET merged == classes[c]._vars
            d == as_dict([cls |-> c, dict |-> <<>>])
        IN  /\ Keys(merged) = DeclaredNames(c)
            /\ Len(merged) = Cardinality(DeclaredNames(c))
            /\ \A n \in DeclaredNames(c) :
                 /\ Lookup(merged, n) = Lookup(classes[Declarer(c, n)].attrs, n)
                 /\ ~Has(classes[c].attrs, n) =>
                        /\ Has(classes[classes[c].base]._vars, n)
                        /\ Lookup(merged, n) = Lookup(classes[classes[c].base]._vars, n)
            /\ ~IsRaise(d) => /\ Keys(d.v) = DeclaredNames(c)
                              /\ Len(d.v) = Cardinality(DeclaredNames(c))

\* A derived class of a declared class that overrides one inherited name with another
\* Field object and inherits another name
C1_Witness ==
    \E c \in DOMAIN classes :
        /\ classes[c].base >= 2
        /\ \E n \in Keys(classes[c].attrs) :
             /\ Has(classes[classes[c].base]._vars, n)
             /\ Lookup(classes[classes[c].base]._vars, n) # Lookup(classes[c].attrs, n)
        /\ \E m \in Keys(classes[classes[c].base]._vars) : ~Has(classes[c].attrs, m)

\* The upper-cased field names, written out
UpperName(n) == IF n = foo THEN FOO ELSE IF n = bar THEN BAR ELSE <<>>

\* The first name a class body binds to the Field object fid
FirstNameOf(attrs, fid) ==
    attrs[CHOOSE i \in DOMAIN attrs :
            /\ attrs[i][2] = fid
            /\ \A j \in 1..(i - 1) : attrs[j][2] # fid][1]

\* C4: every Field in a class's _vars has a non-empty variable name; a name that is set
\* (given to Field() or assigned by a class declaration) never changes; a name is
\* assigned only by the class declaration that first binds the Field, and is the
\* upper-cased name it is bound to there; an int Field with the explicit name QUUX is
\* read from QUUX, not from the upper-cased field name.
C4_EnvNameAssignedOnce ==
    [][ /\ \A c \in DOMAIN classes' : \A i \in DOMAIN classes'[c]._vars :
             ~Falsy(fields'[classes'[c]._vars[i][2]]._env_var)
        /\ \A fid \in DOMAIN fields :
             /\ ~Falsy(fields[fid]._env_var) => fields'[fid]._env_var = fields[fid]._env_var
             /\ (Falsy(fields[fid]._env_var) /\ ~Falsy(fields'[fid]._env_var)) =>
                  /\ Len(classes') = Len(classes) + 1
                  /\ \E i \in DOMAIN classes'[Len(classes')].attrs :
                        classes'[Len(classes')].attrs[i][2] = fid
                  /\ fields'[fid]._env_var =
                        PyStr(UpperName(FirstNameOf(classes'[Len(classes')].attrs, fid)))
        /\ \A c \in DOMAIN classes' : \A i \in DOMAIN classes'[c]._vars :
             LET n == classes'[c]._vars[i][1]
                 f == fields'[classes'[c]._vars[i][2]]
             IN  (f.type = "int" /\ f.default = PyInt(25)) =>
                    /\ f._env_var = PyStr(QUUX)
                    /\ value(f, [k \in {QUUX} |-> <<"3","0">>]) = PyInt(30)
                    /\ value(f, [k \in {UpperName(n)} |-> <<"3","0">>]) = PyInt(25)
      ]_vars

\* A Field with the explicit name QUUX bound in a class, and a Field first declared as
\* foo that a class binds again as bar and that keeps the name FOO
C4_Witness ==
    /\ \E c \in DOMAIN classes : \E i \in DOMAIN classes[c]._vars :
          fields[classes[c]._vars[i][2]]._env_var = PyStr(QUUX)
    /\ \E c \in DOMAIN classes :
          /\ Has(classes[c]._vars, bar)
          /\ fields[Lookup(classes[c]._vars, bar)]._env_var = PyStr(FOO)

\* C10: no step changes the _vars of a class that exists, nor any Field object bound
\* in it: not the declaration of a derived class, not the construction of an
\* instance, not a read, not a change of the environment; and a name a class does not
\* declare is bound, in its _vars, to the same Field object as in its base's _vars.
C10_MergedFieldsNeverChange ==
    [][ /\ Len(classes') >= Len(classes)
        /\ \A c \in DOMAIN classes :
             /\ classes'[c] = classes[c]
             /\ \A i \in DOMAIN classes[c]._vars :
                  fields'[classes[c]._vars[i][2]] = fields[classes[c]._vars[i][2]]
        /\ \A c \in DOMAIN classes' : c >= 2 =>
             \A n \in Keys(classes'[classes'[c].base]._vars) \ Keys(classes'[c].attrs) :
                 /\ Has(classes'[c]._vars, n)
                 /\ Lookup(classes'[c]._vars, n) = Lookup(classes'[classes'[c].base]._vars, n)
      ]_vars

\* A class overrides a name of its declared base with another Field object and adds or
\* inherits another; an instance built with direct values exists, QUUX is set and
\* as_dict() has just returned
C10_Witness ==
    /\ \E c \in DOMAIN classes :
          /\ classes[c].base >= 2
          /\ \E n \in Keys(classes[c].attrs) :
               /\ Has(classes[classes[c].base]._vars, n)
               /\ Lookup(classes[classes[c].base]._vars, n) # Lookup(classes[c].attrs, n)
          /\ Len(classes[c]._vars) = 2
          /\ config.cls = c
    /\ config.dict # <<>>
    /\ QUUX \in DOMAIN environ
    /\ ret.op = "as_dict"

-----------------------------------------------------------------------------
(* Properties of reads.  ret is the result of the last operation, and every   *)
(* operation that is not a read resets it, so a read's result stands next to  *)
(* the environment the read was made in.                                      *)

\* The instance's declared fields, and the Field object a declared name is bound to
Merged == classes[config.cls]._vars
Declared(n) == fields[Lookup(Merged, n)]

\* n names a declared field of the instance, and the instance holds no direct value
\* under that name: reading config.n reaches Field.value
Resolves(n) == Has(Merged, n) /\ ~Has(config.dict, n)

IsSet(f) == f._env_var.v \in DOMAIN environ
Raw(f) == environ[f._env_var.v]

\* "true" and "false" in any mix of cases, written out letter by letter
IsTrueLiteral(s) ==
    /\ Len(s) = 4
    /\ s[1] \in {"t", "T"} /\ s[2] \in {"r", "R"} /\ s[3] \in {"u", "U"} /\ s[4] \in {"e", "E"}
IsFalseLiteral(s) ==
    /\ Len(s) = 5
    /\ s[1] \in {"f", "F"} /\ s[2] \in {"a", "A"} /\ s[3] \in {"l", "L"}
    /\ s[4] \in {"s", "S"} /\ s[5] \in {"e", "E"}

\* C2: when the variable of a declared field is not in the environment, reading the
\* field returns the declared default itself, whatever the field's type (a JSON
\* field's dict, a bool field's True); and as_dict() with none of the variables of
\* the declared fields set maps every declared name to its default.
C2_DefaultWhenUnset ==
    /\ (ret.op = "getattr" /\ Resolves(ret.name) /\ ~IsSet(Declared(ret.name)))
          => ret.val = Declared(ret.name).default
    /\ (ret.op = "as_dict" /\ \A i \in DOMAIN Merged : ~IsSet(fields[Merged[i][2]]))
          => /\ ret.val.t = "dict"
             /\ Len(ret.val.v) = Len(Merged)
             /\ \A i \in DOMAIN Merged :
                  ret.val.v[i] = <<Merged[i][1], fields[Merged[i][2]].default>>

\* The JSON field read while variables of other fields are set, and as_dict() of
\* SampleConfig with no variable of its fields set
C2_Witness ==
    \/ /\ ret.op = "getattr" /\ ret.name = some_obj /\ ret.val = some_obj_default
       /\ FOO \in DOMAIN environ
    \/ /\ ret.op = "as_dict" /\ config.cls = 3 /\ ret.val.t = "dict"
       /\ DOMAIN environ = {}

\* C3: reading a bool field whose variable is set returns True when the raw string is
\* "true" in any mix of cases, False when it is "false" in any mix of cases, and
\* raises ValueError for every other raw string, the empty one included; as_dict()
\* raises then too, and otherwise holds the same bool.
C3_BoolLiterals ==
    /\ (ret.op = "getattr" /\ Resolves(ret.name)
          /\ Declared(ret.name).type = "bool" /\ IsSet(Declared(ret.name)))
          => LET s == Raw(Declared(ret.name))
             IN  ret.val = IF IsTrueLiteral(s) THEN PyBool(TRUE)
                           ELSE IF IsFalseLiteral(s) THEN PyBool(FALSE)
                           ELSE Raise("ValueError")
    /\ ret.op = "as_dict" =>
          \A i \in DOMAIN Merged :
             LET f == fields[Merged[i][2]]
             IN  (f.type = "bool" /\ IsSet(f)) =>
                    IF IsTrueLiteral(Raw(f)) \/ IsFalseLiteral(Raw(f))
                    THEN ret.val.t = "dict" =>
                            ret.val.v[i] = <<Merged[i][1], PyBool(IsTrueLiteral(Raw(f)))>>
                    ELSE ret.val = Raise("ValueError")

\* foo read with FOO set to the empty string
C3_Witness ==
    /\ ret.op = "getattr" /\ ret.name = foo
    /\ FOO \in DOMAIN environ /\ environ[FOO] = <<>>
    /\ ret.val = Raise("ValueError")

\* What a declared field resolves to in the current environment, by the type of the
\* field, for the raw strings of EnvSettings
Resolved(f) ==
    IF ~IsSet(f) THEN f.default
    ELSE IF f.type = "str" THEN PyStr(Raw(f))
    ELSE IF f.type = "int"
         THEN IF Raw(f) = <<"3","0">> THEN PyInt(30) ELSE Raise("ValueError")
    ELSE IF f.type = "bool"
         THEN IF IsTrueLiteral(Raw(f)) THEN PyBool(TRUE)
              ELSE IF IsFalseLiteral(Raw(f)) THEN PyBool(FALSE)
              ELSE Raise("ValueError")
    ELSE IF Raw(f) = <<"3","0">> THEN PyInt(30) ELSE Raise("JSONDecodeError")

\* C6: a read never returns a value kept from an earlier read or from construction:
\* config.name returns what the field resolves to in the environment as it is at the
\* read, and as_dict() holds, name by name, what each field resolves to at the call
\* (or raises when one of them cannot be decoded).
C6_ReadsFollowEnvironment ==
    /\ (ret.op = "getattr" /\ Resolves(ret.name)) => ret.val = Resolved(Declared(ret.name))
    /\ ret.op = "as_dict" =>
          IF \E i \in DOMAIN Merged : IsRaise(Resolved(fields[Merged[i][2]]))
          THEN IsRaise(ret.val)
          ELSE /\ ret.val.t = "dict"
               /\ Len(ret.val.v) = Len(Merged)
               /\ \A i \in DOMAIN Merged :
                    ret.val.v[i] = <<Merged[i][1], Resolved(fields[Merged[i][2]])>>

\* as_dict() of an instance after FOO=FALSE and QUUX=30 were set: foo is False, baz 30,
\* bar still the default
C6_Witness ==
    /\ ret.op = "as_dict" /\ config.cls = 2
    /\ DOMAIN environ = {FOO, QUUX}
    /\ ret.val = PyDict(<< <<foo, PyBool(FALSE)>>, <<bar, PyStr(bar)>>, <<baz, PyInt(30)>>,
                            <<some_obj, some_obj_default>> >>)

\* C5: get(name, default) returns the field's value when name is declared, returns
\* default when it is not, and never raises.
C5_GetReturnsDefault ==
    ret.op = "get" =>
        /\ ~IsRaise(ret.val)
        /\ Has(Merged, ret.name) => ret.val = Resolved(Declared(ret.name))
        /\ ~Has(Merged, ret.name) => ret.val = ret.default

\* C7: with an undecodable value for one field in the environment, reading that field
\* raises and as_dict() raises, while config.g and config.get(g, default) for any
\* other declared field g that can be decoded return g's value.
C7_FieldsResolveIndependently ==
    (/\ ret.op \in {"getattr", "get", "as_dict"}
     /\ \E i \in DOMAIN Merged : IsRaise(Resolved(fields[Merged[i][2]]))) =>
        /\ ret.op = "as_dict" => IsRaise(ret.val)
        /\ (ret.op = "getattr" /\ Resolves(ret.name)) => ret.val = Resolved(Declared(ret.name))
        /\ (ret.op = "get" /\ Has(Merged, ret.name) /\ ~IsRaise(Resolved(Declared(ret.name))))
              => ret.val = Resolved(Declared(ret.name))

\* C8: has_key(name) returns True exactly when name is a declared name, whatever the
\* environment holds, and never raises.
C8_HasKeyIsMembership ==
    ret.op = "has_key" => ret.val = PyBool(Has(Merged, ret.name))

\* C9: on an instance built with a direct value v for the name of a declared field,
\* with no variable set for the name, config.name is v.
C9_DirectValueShadows ==
    (/\ ret.op = "getattr"
     /\ Has(config.dict, ret.name) /\ Has(Merged, ret.name)
     /\ ~IsSet(Declared(ret.name)))
        => ret.val = Lookup(config.dict, ret.name).default

====
